---- MODULE Spec2Model ----
(***************************************************************************)
(* Model of the CLIP image search cache (cache_manager.py), the ranking    *)
(* routine (search_engine.py) and the search worker (main.py).             *)
(*                                                                         *)
(* The disk is modelled per model namespace: the manifest file             *)
(* <cache>/<model>/manifest.json and the files of                          *)
(* <cache>/<model>/embeddings/.  Every CacheManager method re-reads the    *)
(* manifest from disk, so the disk, CacheManager.model_name and the        *)
(* directory its paths point at (model_cache_dir, named by the model whose *)
(* <cache>/<model> it is) are the whole state.  `last` records the most    *)
(* recent call and its outcome.  `legacy` is the flat layout of older      *)
(* versions, <cache>/manifest.json and <cache>/embeddings/.  `threads`     *)
(* holds the positions and locals of the embedding worker and the search   *)
(* worker when they run step by step, and under `app` the ImageSearchApp:  *)
(* its in-progress flag, its buttons, its worker threads and the queue of  *)
(* their signals waiting for the main thread.  `clip` is the CLIPService:  *)
(* the name of the model it embeds with and whether that model is loaded.  *)
(***************************************************************************)
EXTENDS Integers, Sequences, FiniteSets, TLC

VARIABLES model_name, model_cache_dir, manifest, files, legacy, threads, clip,
          crashes, last

vars == <<model_name, model_cache_dir, manifest, files, legacy, threads, clip,
         crashes, last>>

----------------------------------------------------------------------------
(* Bounds *)

\* number of process crashes (each followed by a restart) in one behaviour
MaxCrashes == 1

\* search is called with top_k in -MaxTopK .. MaxTopK
MaxTopK == 3

----------------------------------------------------------------------------
(* Value domains *)

\* default of CacheManager.__init__(model_name=...)
DefaultModel == "clip-vit-base-patch32"

Models == {DefaultModel, "clip-vit-large-patch14"}

\* path keys used by the cache operations of Spec
PathKeys == {"/d1/a.jpg", "/d1/b.jpg"}

\* path keys used by SearchSpec (one more candidate)
SearchKeys == PathKeys \cup {"/d2/c.jpg"}

AllKeys == PathKeys \cup SearchKeys

\* embedding vectors stored by Spec
Vectors == {<<1, 0>>, <<0, 1>>}

\* embedding vectors stored by SearchSpec: a zero-norm vector, two vectors
\* of the same direction (equal cosine to any query) and others
SearchVectors == {<<0, 0>>, <<1, 0>>, <<2, 0>>, <<0, 1>>, <<1, 1>>}

\* a file name that does not exist / a file cut short by a crash in np.save
NoFile == <<>>
CorruptFile == <<0>>

----------------------------------------------------------------------------
(* cache_manager.py *)

\* hashlib.md5(image_path.encode()).hexdigest() + ".npy": a fixed name per
\* key, distinct keys give distinct names
_get_embedding_filename_Collide(image_path) == "0cc1.npy"
_get_embedding_filename(image_path) ==
  CASE image_path = "/d1/a.jpg" -> "0cc1.npy"
    [] image_path = "/d1/b.jpg" -> "92eb.npy"
    [] image_path = "/d2/c.jpg" -> "4a8a.npy"

FileNames == {_get_embedding_filename(p) : p \in AllKeys}

\* the manifest file: absent, a JSON object (an ordered list of
\* <<path key, file name>> pairs, as json.load returns a dict in file order)
\* or a file cut short during a rewrite
NoManifest == [st |-> "absent", items |-> <<>>]
CorruptManifest == [st |-> "corrupt", items |-> <<>>]
ManifestOf(items) == [st |-> "ok", items |-> items]

\* dict operations on the ordered list of pairs
DictHas(d, k) == \E i \in 1..Len(d) : d[i][1] = k
DictGet(d, k) == d[CHOOSE i \in 1..Len(d) : d[i][1] = k][2]
DictKeys(d) == [i \in 1..Len(d) |-> d[i][1]]
\* d[k] = f: replaces the value in place, a new key goes last
DictSetAppendAlways(d, k, f) == Append(d, <<k, f>>)
DictSet(d, k, f) ==
  IF DictHas(d, k)
  THEN [i \in 1..Len(d) |-> IF d[i][1] = k THEN <<k, f>> ELSE d[i]]
  ELSE Append(d, <<k, f>>)
\* del d[k]
DictDel(d, k) == SelectSeq(d, LAMBDA e : e[1] # k)

\* _load_manifest on namespace ns: {} when the file is absent, the parsed
\* mapping, or a json.JSONDecodeError
_load_manifest(ns) ==
  CASE manifest[ns].st = "absent" -> [err |-> FALSE, d |-> <<>>]
    [] manifest[ns].st = "ok" -> [err |-> FALSE, d |-> manifest[ns].items]
    [] manifest[ns].st = "corrupt" -> [err |-> TRUE, d |-> <<>>]

\* os.path.exists(os.path.join(embeddings_dir, filename))
FileExists(ns, f) == files[ns][f] # NoFile

\* get_embedding_path: "error", "none" or the file name found
get_embedding_path(ns, image_path) ==
  LET m == _load_manifest(ns) IN
  IF m.err THEN "error"
  ELSE IF DictHas(m.d, image_path) /\ FileExists(ns, DictGet(m.d, image_path))
       THEN DictGet(m.d, image_path)
  ELSE "none"

\* has_embedding: "true", "false" or "error"
has_embedding(ns, image_path) ==
  LET e == get_embedding_path(ns, image_path) IN
  IF e = "error" THEN "error" ELSE IF e = "none" THEN "false" ELSE "true"

\* load_embedding: [st |-> "ok", v |-> vector], [st |-> "none"] for None,
\* [st |-> "error"] when the manifest or the file cannot be parsed
LoadResult(st, v) == [st |-> st, v |-> v]
load_embedding(ns, image_path) ==
  LET e == get_embedding_path(ns, image_path) IN
  IF e = "error" THEN LoadResult("error", NoFile)
  ELSE IF e = "none" THEN LoadResult("none", NoFile)
  ELSE IF files[ns][e] = CorruptFile THEN LoadResult("error", NoFile)
  ELSE LoadResult("ok", files[ns][e])

\* get_all_embeddings: the ordered dict of <<path key, vector>> pairs
RECURSIVE LoadAll(_, _)
LoadAll(ns, d) ==
  IF d = <<>> THEN [err |-> FALSE, d |-> <<>>]
  ELSE LET rest == LoadAll(ns, Tail(d))
           f == Head(d)[2]
       IN IF ~FileExists(ns, f) THEN rest
          ELSE IF files[ns][f] = CorruptFile \/ rest.err
               THEN [err |-> TRUE, d |-> <<>>]
          ELSE [err |-> FALSE, d |-> <<<<Head(d)[1], files[ns][f]>>>> \o rest.d]
get_all_embeddings(ns) ==
  LET m == _load_manifest(ns) IN
  IF m.err THEN [err |-> TRUE, d |-> <<>>] ELSE LoadAll(ns, m.d)

\* get_all_image_paths
get_all_image_paths(ns) ==
  LET m == _load_manifest(ns) IN
  IF m.err THEN [err |-> TRUE, keys |-> <<>>]
  ELSE [err |-> FALSE, keys |-> DictKeys(m.d)]

----------------------------------------------------------------------------
(* The record of the most recent call *)

NoVec == <<>>
Call(op, ns, key, vec, status, point) ==
  [op |-> op, ns |-> ns, key |-> key, vec |-> vec, status |-> status,
   point |-> point, query |-> "", top_k |-> 0, image |-> "", out |-> <<>>]

\* no legacy layout in the cache root
NoFiles == [f \in FileNames |-> NoFile]
NoLegacy == [manifest |-> NoManifest, files |-> NoFiles]

\* CLIPService(): model_name = "openai/clip-vit-base-patch32", model = None
DefaultClipModel == "openai/clip-vit-base-patch32"
NewCLIPService == [model_name |-> DefaultClipModel, model |-> "None"]

\* ImageSearchApp after __init__: self.embedding is False, both buttons are
\* enabled, no EmbeddingWorker and no SearchWorker exists and no signal
\* waits for the main thread
NoApp ==
  [embedding |-> FALSE, gen_embeddings_btn |-> TRUE, search_btn |-> TRUE,
   workers |-> <<>>, searchers |-> <<>>, queue |-> <<>>]

\* no worker thread is running
NoThreads ==
  [wpc |-> "idle", images |-> <<>>, wmanifest |-> <<>>,
   spc |-> "idle", query |-> "", smanifest |-> <<>>, embeddings |-> <<>>,
   valid |-> <<>>, snaps |-> {}, app |-> NoApp]

Init ==
  /\ model_name = DefaultModel
  /\ model_cache_dir = DefaultModel
  /\ manifest = [ns \in Models |-> NoManifest]
  /\ files = [ns \in Models |-> NoFiles]
  /\ legacy = NoLegacy
  /\ threads = NoThreads
  /\ clip = NewCLIPService
  /\ crashes = 0
  /\ last = Call("init", DefaultModel, "", NoVec, "ok", "")

\* set_model, with _set_model_dir (os.makedirs of an existing or new
\* directory changes no file)
set_model_NoSetModelDir(name) ==
  /\ model_name' = name
  /\ last' = Call("set_model", name, "", NoVec, "ok", "")
  /\ UNCHANGED <<model_cache_dir, manifest, files, crashes, clip,
                      legacy, threads>>
set_model(name) ==
  /\ IF name # model_name
     THEN model_name' = name /\ model_cache_dir' = name
     ELSE UNCHANGED <<model_name, model_cache_dir>>
  /\ last' = Call("set_model", name, "", NoVec, "ok", "")
  /\ UNCHANGED <<manifest, files, crashes, clip,
                      legacy, threads>>

\* save_embedding, run to completion (or to the exception of _load_manifest)
save_embedding(image_path, embedding) ==
  LET ns == model_cache_dir
      m == _load_manifest(ns)
      filename == _get_embedding_filename(image_path)
  IN IF m.err
     THEN /\ last' = Call("save_embedding", ns, image_path, embedding, "error", "")
          /\ UNCHANGED <<model_name, model_cache_dir, manifest, files, crashes, clip,
                      legacy, threads>>
     ELSE /\ files' = [files EXCEPT ![ns][filename] = embedding]
          /\ manifest' = [manifest EXCEPT
                            ![ns] = ManifestOf(DictSet(m.d, image_path, filename))]
          /\ last' = Call("save_embedding", ns, image_path, embedding, "ok", "")
          /\ UNCHANGED <<model_name, model_cache_dir, crashes, clip,
                      legacy, threads>>

\* a crash ends the process; the application starts again and main.py
\* constructs CacheManager() with the default model name (no legacy layout
\* in the cache root, so _migrate_if_needed does nothing)
Restart ==
  /\ crashes < MaxCrashes
  /\ crashes' = crashes + 1
  /\ model_name' = DefaultModel
  /\ model_cache_dir' = DefaultModel
  /\ clip' = NewCLIPService
  /\ UNCHANGED <<legacy, threads>>

\* save_embedding interrupted by a crash
\*   "np_save":         inside np.save, the vector file is cut short
\*   "before_manifest": np.save returned, _save_manifest not yet called
\*   "manifest_write":  inside _save_manifest, after open(path, 'w')
\*                      truncated the file and before json.dump completed
SavePoints == {"np_save", "before_manifest", "manifest_write"}
save_embedding_crash(image_path, embedding, point) ==
  LET ns == model_cache_dir
      m == _load_manifest(ns)
      filename == _get_embedding_filename(image_path)
  IN /\ ~m.err
     /\ Restart
     /\ files' = [files EXCEPT ![ns][filename] =
                    IF point = "np_save" THEN CorruptFile ELSE embedding]
     /\ manifest' = IF point = "manifest_write"
                    THEN [manifest EXCEPT ![ns] = CorruptManifest]
                    ELSE manifest
     /\ last' = Call("save_embedding", ns, image_path, embedding, "crash", point)

\* remove_embedding, run to completion
remove_embedding_KeepFile(image_path) ==
  LET ns == model_cache_dir
      m == _load_manifest(ns)
  IN IF m.err
     THEN /\ last' = Call("remove_embedding", ns, image_path, NoVec, "error", "")
          /\ UNCHANGED <<model_name, model_cache_dir, manifest, files, crashes, clip,
                      legacy, threads>>
     ELSE /\ manifest' = [manifest EXCEPT
                            ![ns] = ManifestOf(DictDel(m.d, image_path))]
          /\ last' = Call("remove_embedding", ns, image_path, NoVec, "ok", "")
          /\ UNCHANGED <<model_name, model_cache_dir, files, crashes, clip,
                      legacy, threads>>
remove_embedding(image_path) ==
  LET ns == model_cache_dir
      m == _load_manifest(ns)
  IN IF m.err
     THEN /\ last' = Call("remove_embedding", ns, image_path, NoVec, "error", "")
          /\ UNCHANGED <<model_name, model_cache_dir, manifest, files, crashes, clip,
                      legacy, threads>>
     ELSE IF DictHas(m.d, image_path)
     THEN /\ files' = [files EXCEPT ![ns][DictGet(m.d, image_path)] = NoFile]
          /\ manifest' = [manifest EXCEPT
                            ![ns] = ManifestOf(DictDel(m.d, image_path))]
          /\ last' = Call("remove_embedding", ns, image_path, NoVec, "ok", "")
          /\ UNCHANGED <<model_name, model_cache_dir, crashes, clip,
                      legacy, threads>>
     ELSE /\ last' = Call("remove_embedding", ns, image_path, NoVec, "ok", "")
          /\ UNCHANGED <<model_name, model_cache_dir, manifest, files, crashes, clip,
                      legacy, threads>>

\* remove_embedding interrupted after os.remove ("before_manifest") or
\* inside _save_manifest ("manifest_write")
RemovePoints == {"before_manifest", "manifest_write"}
remove_embedding_crash(image_path, point) ==
  LET ns == model_cache_dir
      m == _load_manifest(ns)
  IN /\ ~m.err
     /\ DictHas(m.d, image_path)
     /\ Restart
     /\ files' = [files EXCEPT ![ns][DictGet(m.d, image_path)] = NoFile]
     /\ manifest' = IF point = "manifest_write"
                    THEN [manifest EXCEPT ![ns] = CorruptManifest]
                    ELSE manifest
     /\ last' = Call("remove_embedding", ns, image_path, NoVec, "crash", point)

\* clear_all: removes every file of the embeddings directory, writes {}
clear_all_ManifestFilesOnly ==
  LET ns == model_cache_dir IN
  /\ files' = [files EXCEPT
                 ![ns] = [f \in FileNames |->
                            IF \E i \in 1..Len(manifest[ns].items) :
                                 manifest[ns].items[i][2] = f
                            THEN NoFile ELSE files[ns][f]]]
  /\ manifest' = [manifest EXCEPT ![ns] = ManifestOf(<<>>)]
  /\ last' = Call("clear_all", ns, "", NoVec, "ok", "")
  /\ UNCHANGED <<model_name, model_cache_dir, crashes, clip,
                      legacy, threads>>
clear_all ==
  LET ns == model_cache_dir IN
  /\ files' = [files EXCEPT ![ns] = [f \in FileNames |-> NoFile]]
  /\ manifest' = [manifest EXCEPT ![ns] = ManifestOf(<<>>)]
  /\ last' = Call("clear_all", ns, "", NoVec, "ok", "")
  /\ UNCHANGED <<model_name, model_cache_dir, crashes, clip,
                      legacy, threads>>

\* clear_all interrupted inside the os.remove loop after the files of
\* `removed` were deleted ("removing"), or inside _save_manifest
clear_all_crash(removed, point) ==
  LET ns == model_cache_dir IN
  /\ Restart
  /\ point = "manifest_write" => removed = FileNames
  /\ files' = [files EXCEPT
                 ![ns] = [f \in FileNames |->
                            IF f \in removed THEN NoFile ELSE files[ns][f]]]
  /\ manifest' = IF point = "manifest_write"
                 THEN [manifest EXCEPT ![ns] = CorruptManifest]
                 ELSE manifest
  /\ last' = Call("clear_all", ns, "", NoVec, "crash", point)

\* a caller asks has_embedding(image_path) (main.py:326)
has_embedding_call(image_path) ==
  /\ last' = Call("has_embedding", model_cache_dir, image_path, NoVec,
                  has_embedding(model_cache_dir, image_path), "")
  /\ UNCHANGED <<model_name, model_cache_dir, manifest, files, crashes, clip,
                      legacy, threads>>

Next ==
  \/ \E name \in Models : set_model(name)
  \/ \E p \in PathKeys, v \in Vectors : save_embedding(p, v)
  \/ \E p \in PathKeys, v \in Vectors, pt \in SavePoints :
       save_embedding_crash(p, v, pt)
  \/ \E p \in PathKeys : remove_embedding(p)
  \/ \E p \in PathKeys, pt \in RemovePoints : remove_embedding_crash(p, pt)
  \/ clear_all
  \/ \E removed \in SUBSET FileNames, pt \in {"removing", "manifest_write"} :
       clear_all_crash(removed, pt)
  \/ \E p \in PathKeys : has_embedding_call(p)

Spec == Init /\ [][Next]_vars

----------------------------------------------------------------------------
(* clip_service.py: the encoder is an opaque function to vectors *)

Queries == {"cat", "dog"}

\* get_text_embedding
get_text_embedding(text) ==
  CASE text = "cat" -> <<1, 0>>
    [] text = "dog" -> <<1, -1>>

\* image files a user can drop; os.path.exists holds for ExistingImages
ImagePaths == {"/d1/a.jpg", "/gone.jpg"}
ExistingImages == {"/d1/a.jpg"}

\* get_image_embedding
get_image_embedding(path) ==
  CASE path = "/d1/a.jpg" -> <<1, 0>>
    [] path = "/gone.jpg" -> <<0, 1>>
    [] path = "/d1/b.jpg" -> <<0, 1>>

----------------------------------------------------------------------------
(* search_engine.py *)

Dot(a, b) == a[1] * b[1] + a[2] * b[2]

RECURSIVE GCD(_, _)
GCD(x, y) == IF y = 0 THEN x ELSE GCD(y, x % y)

\* A score is the real number sgn * sqrt(num / den), num/den in lowest
\* terms, or NaN.  Floating-point rounding is not modelled.
NaN == [nan |-> TRUE, sgn |-> 0, num |-> 0, den |-> 1]
Real(sgn, num, den) ==
  LET g == GCD(num, den) IN
  [nan |-> FALSE, sgn |-> sgn, num |-> num \div g, den |-> den \div g]

\* _cosine_similarity: a / norm(a) and b / norm(b) are vectors of nan when
\* the norm is 0.0 (numpy warns, it does not raise), and so is their dot
_cosine_similarity(a, b) ==
  LET na == Dot(a, a)
      nb == Dot(b, b)
      d == Dot(a, b)
  IN IF na = 0 \/ nb = 0 THEN NaN
     ELSE Real(IF d > 0 THEN 1 ELSE IF d < 0 THEN -1 ELSE 0, d * d, na * nb)

\* x < y on floats: False whenever an operand is nan
FloatLt(x, y) ==
  IF x.nan \/ y.nan THEN FALSE
  ELSE IF x.sgn # y.sgn THEN x.sgn < y.sgn
  ELSE IF x.sgn = 1 THEN x.num * y.den < y.num * x.den
  ELSE IF x.sgn = -1 THEN x.num * y.den > y.num * x.den
  ELSE FALSE

\* the comparison list.sort makes on the key x[1] of two result tuples
KeyLt(x, y) == FloatLt(x[2], y[2])

Reverse(s) == [i \in 1..Len(s) |-> s[Len(s) + 1 - i]]

SubSeqFrom(s, i) == SubSeq(s, i, Len(s))

\* listobject.c count_run: the length of the run that starts the list,
\* strictly descending or non-descending
count_run(s) ==
  LET descending == KeyLt(s[2], s[1])
      n == CHOOSE k \in 2..Len(s) :
             /\ \A i \in 3..k : KeyLt(s[i], s[i - 1]) = descending
             /\ k = Len(s) \/ KeyLt(s[k + 1], s[k]) # descending
  IN [n |-> n, descending |-> descending]

\* listobject.c binarysort: the slot of pivot in the sorted prefix [l, r)
RECURSIVE BinaryPos(_, _, _, _)
BinaryPos(s, pivot, l, r) ==
  IF l >= r THEN l
  ELSE LET p == l + ((r - l) \div 2) IN
       IF KeyLt(pivot, s[p]) THEN BinaryPos(s, pivot, l, p)
       ELSE BinaryPos(s, pivot, p + 1, r)

\* listobject.c binarysort: inserts s[start], s[start+1], ... in turn
RECURSIVE binarysort(_, _)
binarysort(s, start) ==
  IF start > Len(s) THEN s
  ELSE LET pivot == s[start]
           l == BinaryPos(s, pivot, 1, start)
       IN binarysort(SubSeq(s, 1, l - 1) \o <<pivot>> \o SubSeq(s, l, start - 1)
                       \o SubSeqFrom(s, start + 1),
                     start + 1)

\* listobject.c list_sort_impl for fewer than 64 elements (CPython 3.11):
\* one run, extended to the whole list by binarysort
ListSortAscending(s) ==
  IF Len(s) < 2 THEN s
  ELSE LET run == count_run(s)
           s1 == IF run.descending
                 THEN Reverse(SubSeq(s, 1, run.n)) \o SubSeqFrom(s, run.n + 1)
                 ELSE s
       IN binarysort(s1, run.n + 1)

\* list.sort(key=lambda x: x[1], reverse=...): reverse=True reverses the
\* list before and after the ascending sort, which keeps the sort stable
ListSortNoReverse(s, reverse) == ListSortAscending(s)
ListSortReverseAfter(s, reverse) ==
  IF reverse THEN Reverse(ListSortAscending(s)) ELSE ListSortAscending(s)
ListSort(s, reverse) ==
  IF reverse THEN Reverse(ListSortAscending(Reverse(s)))
  ELSE ListSortAscending(s)

\* results[:top_k]
SliceTo(s, top_k) ==
  LET n == IF top_k >= 0 THEN (IF top_k < Len(s) THEN top_k ELSE Len(s))
           ELSE (IF Len(s) + top_k > 0 THEN Len(s) + top_k ELSE 0)
  IN SubSeq(s, 1, n)

\* SearchEngine.search from line 17 on: the ranking of the dict embeddings
\* against the query vector
Rank(query_embedding, embeddings, top_k) ==
  IF embeddings = <<>> THEN <<>>
  ELSE LET results == [i \in 1..Len(embeddings) |->
                         <<embeddings[i][1],
                           _cosine_similarity(query_embedding, embeddings[i][2])>>]
       IN SliceTo(ListSort(results, TRUE), top_k)

\* SearchEngine.search(query, top_k)
SearchResult(ns, query, top_k) ==
  LET text_embedding == get_text_embedding(query)
      embeddings == get_all_embeddings(ns)
  IN IF embeddings.err THEN [err |-> TRUE, results |-> <<>>]
     ELSE [err |-> FALSE, results |-> Rank(text_embedding, embeddings.d, top_k)]

\* top_k: int = 20
DefaultTopK == 20

TopKs == (-MaxTopK)..MaxTopK

SearchCall(op, ns, query, top_k, image, status, out) ==
  [op |-> op, ns |-> ns, key |-> "", vec |-> NoVec, status |-> status,
   point |-> "", query |-> query, top_k |-> top_k, image |-> image, out |-> out]

search(query, top_k) ==
  LET r == SearchResult(model_cache_dir, query, top_k) IN
  /\ last' = SearchCall("search", model_cache_dir, query, top_k, "",
                        IF r.err THEN "error" ELSE "ok", r.results)
  /\ UNCHANGED <<model_name, model_cache_dir, manifest, files, crashes, clip,
                      legacy, threads>>

----------------------------------------------------------------------------
(* main.py *)

\* SearchWorker.run: image_path = "" stands for None.  SearchEngine defines
\* __init__, search and _cosine_similarity only, so the call of
\* search_by_image raises AttributeError, which run reports through error.
SearchWorkerRun(query, image_path) ==
  LET r == SearchResult(model_cache_dir, query, DefaultTopK) IN
  /\ last' = IF image_path # "" /\ image_path \in ExistingImages
             THEN SearchCall("SearchWorker.run", model_cache_dir, query, DefaultTopK,
                             image_path, "error", <<>>)
             ELSE SearchCall("SearchWorker.run", model_cache_dir, query, DefaultTopK,
                             image_path, IF r.err THEN "error" ELSE "finished",
                             r.results)
  /\ UNCHANGED <<model_name, model_cache_dir, manifest, files, crashes, clip,
                      legacy, threads>>

SearchNext ==
  \/ \E p \in SearchKeys, v \in SearchVectors : save_embedding(p, v)
  \/ \E q \in Queries, k \in TopKs : search(q, k)
  \/ \E q \in Queries, img \in ImagePaths \cup {""} : SearchWorkerRun(q, img)

SearchSpec == Init /\ [][SearchNext]_vars

----------------------------------------------------------------------------
(* CacheManager.__init__ on a cache root that may hold a legacy layout *)

\* _migrate_if_needed for model name m: the disk it leaves.  Every file of
\* the legacy embeddings directory whose name is free in the namespace is
\* renamed into it; the legacy manifest is renamed when the namespace has
\* none.
Disk(l, mf, fs) == [legacy |-> l, manifest |-> mf, files |-> fs]
_migrate_if_needed_Copy(m) ==
  IF legacy.manifest.st = "absent" THEN Disk(legacy, manifest, files)
  ELSE LET moved == {f \in FileNames :
                       legacy.files[f] # NoFile /\ files[m][f] = NoFile}
           rename_manifest == manifest[m].st = "absent"
       IN Disk([manifest |-> IF rename_manifest THEN NoManifest
                             ELSE legacy.manifest,
                files |-> legacy.files],
               IF rename_manifest
               THEN [manifest EXCEPT ![m] = legacy.manifest] ELSE manifest,
               [files EXCEPT ![m] = [f \in FileNames |->
                  IF f \in moved THEN legacy.files[f] ELSE files[m][f]]])
_migrate_if_needed_NoManifest(m) ==
  IF legacy.manifest.st = "absent" THEN Disk(legacy, manifest, files)
  ELSE LET moved == {f \in FileNames :
                       legacy.files[f] # NoFile /\ files[m][f] = NoFile}
       IN Disk([manifest |-> legacy.manifest,
                files |-> [f \in FileNames |->
                  IF f \in moved THEN NoFile ELSE legacy.files[f]]],
               manifest,
               [files EXCEPT ![m] = [f \in FileNames |->
                  IF f \in moved THEN legacy.files[f] ELSE files[m][f]]])
_migrate_if_needed_Overwrite(m) ==
  IF legacy.manifest.st = "absent" THEN Disk(legacy, manifest, files)
  ELSE LET moved == {f \in FileNames : legacy.files[f] # NoFile}
       IN Disk([manifest |-> NoManifest, files |-> NoFiles],
               [manifest EXCEPT ![m] = legacy.manifest],
               [files EXCEPT ![m] = [f \in FileNames |->
                  IF f \in moved THEN legacy.files[f] ELSE files[m][f]]])
_migrate_if_needed(m) ==
  IF legacy.manifest.st = "absent" THEN Disk(legacy, manifest, files)
  ELSE LET moved == {f \in FileNames :
                       legacy.files[f] # NoFile /\ files[m][f] = NoFile}
           rename_manifest == manifest[m].st = "absent"
       IN Disk([manifest |-> IF rename_manifest THEN NoManifest
                             ELSE legacy.manifest,
                files |-> [f \in FileNames |->
                  IF f \in moved THEN NoFile ELSE legacy.files[f]]],
               IF rename_manifest
               THEN [manifest EXCEPT ![m] = legacy.manifest] ELSE manifest,
               [files EXCEPT ![m] = [f \in FileNames |->
                  IF f \in moved THEN legacy.files[f] ELSE files[m][f]]])

\* CacheManager.__init__(cache_dir, model_name = m)
CacheManager_init(m) ==
  LET d == _migrate_if_needed(m) IN
  /\ legacy' = d.legacy
  /\ manifest' = d.manifest
  /\ files' = d.files
  /\ model_name' = m
  /\ model_cache_dir' = m
  /\ last' = Call("__init__", m, "", NoVec, "ok", "")
  /\ UNCHANGED <<threads, crashes, clip>>

\* The cache root before a construction: any manifest over the path keys,
\* any set of vector files (entries without file and files without entry
\* included), in the legacy layout and in one namespace.
KeyLists ==
  {s \in UNION {[1..n -> PathKeys] : n \in 0..Cardinality(PathKeys)} :
     \A i, j \in 1..Len(s) : i # j => s[i] # s[j]}
ItemsOf(keys) ==
  [i \in 1..Len(keys) |-> <<keys[i], _get_embedding_filename(keys[i])>>]
DirContents ==
  {fs \in [FileNames -> {NoFile} \cup Vectors] :
     \A f \in FileNames :
       fs[f] # NoFile => \E p \in PathKeys : f = _get_embedding_filename(p)}
Layouts ==
  {[manifest |-> mf, files |-> fs] :
     mf \in {NoManifest} \cup {ManifestOf(ItemsOf(k)) : k \in KeyLists},
     fs \in DirContents}

\* no CacheManager exists yet
Unconstructed == ""

MigrationInit ==
  /\ model_name = Unconstructed
  /\ model_cache_dir = Unconstructed
  /\ legacy \in Layouts
  /\ \E target \in Models, c \in Layouts :
       /\ manifest = [ns \in Models |->
                        IF ns = target THEN c.manifest ELSE NoManifest]
       /\ files = [ns \in Models |-> IF ns = target THEN c.files ELSE NoFiles]
  /\ threads = NoThreads
  /\ clip = NewCLIPService
  /\ crashes = 0
  /\ last = Call("none", Unconstructed, "", NoVec, "ok", "")

MigrationNext == \E m \in Models : CacheManager_init(m)

MigrationSpec == MigrationInit /\ [][MigrationNext]_vars

----------------------------------------------------------------------------
(* CacheManager.get_stats *)

\* os.path.dirname of a path key
dirname(image_path) ==
  CASE image_path = "/d1/a.jpg" -> "/d1"
    [] image_path = "/d1/b.jpg" -> "/d1"
    [] image_path = "/d2/c.jpg" -> "/d2"

\* the directory names in the order of Python's str comparison
DirOrder == <<"/d1", "/d2">>
StrLt(a, b) ==
  \E i, j \in 1..Len(DirOrder) : DirOrder[i] = a /\ DirOrder[j] = b /\ i < j

\* sorted(folders) of a set of distinct strings
RECURSIVE sorted(_)
sorted(S) ==
  IF S = {} THEN <<>>
  ELSE LET least == CHOOSE a \in S : \A b \in S : ~StrLt(b, a)
       IN <<least>> \o sorted(S \ {least})

\* os.path.getsize of a vector file written by np.save: the .npy header
\* and four bytes per float32 component; a file cut short holds no bytes
NpyHeaderBytes == 128
Float32Bytes == 4
getsize(content) ==
  IF content = NoFile \/ content = CorruptFile THEN 0
  ELSE NpyHeaderBytes + Float32Bytes * Len(content)

\* total_size: the sizes of all files os.listdir finds in embeddings_dir
RECURSIVE SumSizes(_, _)
SumSizes(ns, F) ==
  IF F = {} THEN 0
  ELSE LET f == CHOOSE f \in F : TRUE
       IN getsize(files[ns][f]) + SumSizes(ns, F \ {f})

\* total_size / (1024 * 1024), the quotient in lowest terms
BytesPerMb == 1024 * 1024
TrueDiv(a, b) == LET g == GCD(a, b) IN [num |-> a \div g, den |-> b \div g]

StatsResult(err, image_count, cache_size_mb, folders) ==
  [err |-> err, image_count |-> image_count,
   cache_size_mb |-> cache_size_mb, folders |-> folders]

get_stats_Unsorted(ns) ==
  LET m == _load_manifest(ns) IN
  IF m.err THEN StatsResult(TRUE, 0, TrueDiv(0, BytesPerMb), <<>>)
  ELSE StatsResult(FALSE, Len(m.d),
         TrueDiv(SumSizes(ns, {f \in FileNames : FileExists(ns, f)}), BytesPerMb),
         LET dirs == [i \in 1..Len(m.d) |-> dirname(m.d[i][1])]
         IN SelectSeq([i \in 1..Len(dirs) |->
                         IF \E j \in 1..(i - 1) : dirs[j] = dirs[i]
                         THEN "" ELSE dirs[i]],
                      LAMBDA x : x # ""))
get_stats(ns) ==
  LET m == _load_manifest(ns) IN
  IF m.err THEN StatsResult(TRUE, 0, TrueDiv(0, BytesPerMb), <<>>)
  ELSE StatsResult(FALSE, Len(m.d),
         TrueDiv(SumSizes(ns, {f \in FileNames : FileExists(ns, f)}), BytesPerMb),
         sorted({dirname(m.d[i][1]) : i \in 1..Len(m.d)}))

\* a caller asks get_stats()
get_stats_call ==
  /\ last' = [Call("get_stats", model_cache_dir, "", NoVec, "ok", "")
                EXCEPT !.out = get_stats(model_cache_dir)]
  /\ UNCHANGED <<model_name, model_cache_dir, manifest, files, crashes, clip,
                      legacy, threads>>

\* vectors of two lengths, so that files differ in size
StatsVectors == {<<1, 0>>, <<1, 0, 0>>}

\* save_embedding, remove_embedding, clear_all and get_stats on the
\* initially empty namespace of the default model, no call interrupted
StatsNext ==
  \/ \E p \in SearchKeys, v \in StatsVectors : save_embedding(p, v)
  \/ \E p \in SearchKeys : remove_embedding(p)
  \/ clear_all
  \/ get_stats_call

StatsSpec == Init /\ [][StatsNext]_vars

----------------------------------------------------------------------------
(* The life of a cache root: constructions with any model name, set_model
   and the mutations, no call interrupted *)

\* the model name whose directory os.path.join(cache_dir, model_name) is the
\* cache root itself: its manifest.json and embeddings/ are the files
\* _migrate_if_needed takes for the legacy layout
RootName == "."
ModelNames == Models \cup {RootName}

\* save_embedding, remove_embedding and clear_all while the model directory
\* is the cache root (the manifest is never unparseable here)
save_embedding_root(image_path, embedding) ==
  LET filename == _get_embedding_filename(image_path) IN
  /\ model_cache_dir = RootName
  /\ legacy' = [manifest |-> ManifestOf(DictSet(legacy.manifest.items,
                                                image_path, filename)),
                files |-> [legacy.files EXCEPT ![filename] = embedding]]
  /\ last' = Call("save_embedding", RootName, image_path, embedding, "ok", "")
  /\ UNCHANGED <<model_name, model_cache_dir, manifest, files, crashes, clip,
                 threads>>
remove_embedding_root(image_path) ==
  LET d == legacy.manifest.items IN
  /\ model_cache_dir = RootName
  /\ IF DictHas(d, image_path)
     THEN legacy' = [manifest |-> ManifestOf(DictDel(d, image_path)),
                     files |-> [legacy.files EXCEPT
                                  ![DictGet(d, image_path)] = NoFile]]
     ELSE UNCHANGED legacy
  /\ last' = Call("remove_embedding", RootName, image_path, NoVec, "ok", "")
  /\ UNCHANGED <<model_name, model_cache_dir, manifest, files, crashes, clip,
                 threads>>
clear_all_root ==
  /\ model_cache_dir = RootName
  /\ legacy' = [manifest |-> ManifestOf(<<>>), files |-> NoFiles]
  /\ last' = Call("clear_all", RootName, "", NoVec, "ok", "")
  /\ UNCHANGED <<model_name, model_cache_dir, manifest, files, crashes, clip,
                 threads>>

\* a legacy layout as the flat-layout version leaves it without interrupted
\* calls: every entry has its file, every file its entry
ConsistentLayouts ==
  {l \in Layouts :
     /\ l.manifest.st = "ok"
     /\ \A f \in FileNames :
          l.files[f] # NoFile
          <=> \E i \in 1..Len(l.manifest.items) : l.manifest.items[i][2] = f}

\* the vector the mutations of LifecycleSpec store (its value plays no part
\* in which files exist)
LifecycleVectors == {<<1, 0>>}

LifecycleInit ==
  /\ model_name = Unconstructed
  /\ model_cache_dir = Unconstructed
  /\ legacy \in {NoLegacy} \cup ConsistentLayouts
  /\ manifest = [ns \in Models |-> NoManifest]
  /\ files = [ns \in Models |-> NoFiles]
  /\ threads = NoThreads
  /\ clip = NewCLIPService
  /\ crashes = 0
  /\ last = Call("none", Unconstructed, "", NoVec, "ok", "")

LifecycleNext ==
  \/ \E m \in Models : CacheManager_init(m)
  \/ /\ model_cache_dir # Unconstructed
     /\ \E name \in ModelNames : set_model(name)
  \/ /\ model_cache_dir \in Models
     /\ \/ \E p \in PathKeys, v \in LifecycleVectors : save_embedding(p, v)
        \/ \E p \in PathKeys : remove_embedding(p)
        \/ clear_all
  \/ \E p \in PathKeys, v \in LifecycleVectors : save_embedding_root(p, v)
  \/ \E p \in PathKeys : remove_embedding_root(p)
  \/ clear_all_root

LifecycleSpec == LifecycleInit /\ [][LifecycleNext]_vars

----------------------------------------------------------------------------
(* main.py: EmbeddingWorker and SearchWorker as two threads on one cache,
   one step per file operation.  threads.wpc and threads.spc are their
   positions, images / wmanifest and query / smanifest / embeddings their
   locals.  threads.valid is the cache contents as of the last completed
   save_embedding, threads.snaps the contents the cache had at the start of
   the running search and after every save_embedding completed since. *)

\* os.walk order of the scanned folder (any listing order)
WalkOrders == {s \in KeyLists : Len(s) = Cardinality(PathKeys)}

\* _start_embedding: collects the images without embedding and starts the
\* worker; returns at once while a worker runs or when nothing is missing
_start_embedding(walk) ==
  LET ns == model_cache_dir
      images == SelectSeq(walk, LAMBDA p : has_embedding(ns, p) = "false")
  IN /\ threads.wpc = "idle"
     /\ images # <<>>
     /\ threads' = [threads EXCEPT !.wpc = "load", !.images = images]
     /\ last' = Call("_start_embedding", ns, "", NoVec, "ok", "")
     /\ UNCHANGED <<model_name, model_cache_dir, manifest, files, legacy,
                    crashes, clip>>

\* EmbeddingWorker.run, save_embedding of images[1]: _load_manifest
worker_load_manifest ==
  LET m == _load_manifest(model_cache_dir) IN
  /\ threads.wpc = "load"
  /\ threads' = IF m.err
                THEN [threads EXCEPT
                        !.images = Tail(@),
                        !.wpc = IF Tail(threads.images) = <<>>
                                THEN "idle" ELSE "load"]
                ELSE [threads EXCEPT !.wmanifest = m.d, !.wpc = "np_open"]
  /\ UNCHANGED <<model_name, model_cache_dir, manifest, files, legacy,
                 crashes, clip, last>>

\* np.save opens the vector file for writing: the file exists and is empty
worker_np_save_open ==
  LET filename == _get_embedding_filename(Head(threads.images)) IN
  /\ threads.wpc = "np_open"
  /\ files' = [files EXCEPT ![model_cache_dir][filename] = CorruptFile]
  /\ threads' = [threads EXCEPT !.wpc = "np_write"]
  /\ UNCHANGED <<model_name, model_cache_dir, manifest, legacy, crashes, clip, last>>

\* np.save writes the array and closes the file
worker_np_save_write ==
  LET image_path == Head(threads.images) IN
  /\ threads.wpc = "np_write"
  /\ files' = [files EXCEPT
                 ![model_cache_dir][_get_embedding_filename(image_path)] =
                   get_image_embedding(image_path)]
  /\ threads' = [threads EXCEPT !.wpc = "manifest_open"]
  /\ UNCHANGED <<model_name, model_cache_dir, manifest, legacy, crashes, clip, last>>

\* _save_manifest opens manifest.json for writing: the file is empty
worker_save_manifest_open ==
  /\ threads.wpc = "manifest_open"
  /\ manifest' = [manifest EXCEPT ![model_cache_dir] = CorruptManifest]
  /\ threads' = [threads EXCEPT !.wpc = "manifest_write"]
  /\ UNCHANGED <<model_name, model_cache_dir, files, legacy, crashes, clip, last>>

\* json.dump writes the mapping and the file is closed; the loop goes on to
\* the next image or the worker finishes (_on_embedding_done)
worker_save_manifest_write ==
  LET ns == model_cache_dir
      image_path == Head(threads.images)
      d == DictSet(threads.wmanifest, image_path,
                   _get_embedding_filename(image_path))
      contents == LoadAll(ns, d).d
  IN /\ threads.wpc = "manifest_write"
     /\ manifest' = [manifest EXCEPT ![ns] = ManifestOf(d)]
     /\ threads' = [threads EXCEPT
                      !.images = Tail(@),
                      !.wpc = IF Tail(threads.images) = <<>>
                              THEN "idle" ELSE "load",
                      !.valid = contents,
                      !.snaps = IF threads.spc = "idle" THEN @
                                ELSE @ \cup {contents}]
     /\ UNCHANGED <<model_name, model_cache_dir, files, legacy, crashes, clip, last>>

\* _start_search with a text query: starts a SearchWorker
_start_search(query) ==
  /\ threads.spc = "idle"
  /\ threads' = [threads EXCEPT !.spc = "load", !.query = query,
                                !.smanifest = <<>>, !.embeddings = <<>>,
                                !.snaps = {threads.valid}]
  /\ last' = SearchCall("_start_search", model_cache_dir, query, DefaultTopK,
                        "", "ok", <<>>)
  /\ UNCHANGED <<model_name, model_cache_dir, manifest, files, legacy, crashes, clip>>

\* SearchWorker.run, get_all_embeddings: _load_manifest; a JSONDecodeError
\* ends the run through the error signal
search_load_manifest ==
  LET m == _load_manifest(model_cache_dir) IN
  /\ threads.spc = "load"
  /\ IF m.err
     THEN /\ threads' = [threads EXCEPT !.spc = "idle"]
          /\ last' = SearchCall("SearchWorker.run", model_cache_dir,
                                threads.query, DefaultTopK, "", "error", <<>>)
     ELSE /\ threads' = [threads EXCEPT !.spc = "scan", !.smanifest = m.d]
          /\ UNCHANGED last
  /\ UNCHANGED <<model_name, model_cache_dir, manifest, files, legacy, crashes, clip>>

\* get_all_embeddings, one turn of the loop: os.path.exists and np.load
search_load_entry ==
  LET ns == model_cache_dir
      img_path == Head(threads.smanifest)[1]
      filename == Head(threads.smanifest)[2]
  IN /\ threads.spc = "scan"
     /\ threads.smanifest # <<>>
     /\ IF FileExists(ns, filename) /\ files[ns][filename] = CorruptFile
        THEN /\ threads' = [threads EXCEPT !.spc = "idle"]
             /\ last' = SearchCall("SearchWorker.run", ns, threads.query,
                                   DefaultTopK, "", "error", <<>>)
        ELSE /\ threads' = [threads EXCEPT
                              !.smanifest = Tail(@),
                              !.embeddings =
                                 IF FileExists(ns, filename)
                                 THEN Append(@, <<img_path, files[ns][filename]>>)
                                 ELSE @]
             /\ UNCHANGED last
     /\ UNCHANGED <<model_name, model_cache_dir, manifest, files, legacy,
                    crashes, clip>>

\* search ranks what get_all_embeddings returned; run emits finished
search_rank ==
  /\ threads.spc = "scan"
  /\ threads.smanifest = <<>>
  /\ threads' = [threads EXCEPT !.spc = "idle"]
  /\ last' = SearchCall("SearchWorker.run", model_cache_dir, threads.query,
                        DefaultTopK, "", "finished",
                        Rank(get_text_embedding(threads.query),
                             threads.embeddings, DefaultTopK))
  /\ UNCHANGED <<model_name, model_cache_dir, manifest, files, legacy, crashes, clip>>

WorkersNext ==
  \/ \E walk \in WalkOrders : _start_embedding(walk)
  \/ worker_load_manifest
  \/ worker_np_save_open
  \/ worker_np_save_write
  \/ worker_save_manifest_open
  \/ worker_save_manifest_write
  \/ \E q \in Queries : _start_search(q)
  \/ search_load_manifest
  \/ search_load_entry
  \/ search_rank

WorkersSpec == Init /\ [][WorkersNext]_vars

----------------------------------------------------------------------------
(* CLIPService and CacheManager side by side: each has its own model name
   and its own set_model *)

ClipModels == {DefaultClipModel, "openai/clip-vit-large-patch14"}

\* CLIPService.set_model
CLIPService_set_model(name) ==
  /\ clip' = IF name # clip.model_name
             THEN [model_name |-> name, model |-> "None"] ELSE clip
  /\ last' = Call("CLIPService.set_model", model_cache_dir, name, NoVec, "ok", "")
  /\ UNCHANGED <<model_name, model_cache_dir, manifest, files, legacy,
                 threads, crashes>>

\* CLIPService.load: from_pretrained(self.model_name) when no model is held
CLIPService_load ==
  /\ clip' = IF clip.model = "None"
             THEN [clip EXCEPT !.model = clip.model_name] ELSE clip
  /\ last' = Call("CLIPService.load", model_cache_dir, clip.model_name, NoVec,
                  "ok", "")
  /\ UNCHANGED <<model_name, model_cache_dir, manifest, files, legacy,
                 threads, crashes>>

\* the image features of the loaded model: the two models map an image to
\* different vectors
ModelEmbedding(model, path) ==
  LET v == get_image_embedding(path) IN
  IF model = DefaultClipModel THEN v ELSE <<v[2], v[1]>>

\* EmbeddingWorker.run, one image after load(): get_image_embedding with the
\* model CLIPService holds, save_embedding into the directory CacheManager
\* points at
embed_and_save(image_path) ==
  /\ clip.model # "None"
  /\ save_embedding(image_path, ModelEmbedding(clip.model, image_path))

ModelNext ==
  \/ \E name \in Models : set_model(name)
  \/ \E name \in ClipModels : CLIPService_set_model(name)
  \/ CLIPService_load
  \/ \E p \in PathKeys : embed_and_save(p)

ModelSpec == Init /\ [][ModelNext]_vars

----------------------------------------------------------------------------
(* main.py: ImageSearchApp, its handlers on the main thread and its worker
   threads, one step per loop turn of a worker.  A signal a worker emits is
   queued (threads.app.queue) and its slot runs later on the main thread.
   threads.app.workers holds the EmbeddingWorker threads that were started
   and whose last signal is not handled yet: pc, images, the number i of
   images processed, the signals emitted and, per image tried, whether it
   succeeded.  threads.app.searchers holds the queries of the running
   SearchWorker threads. *)

\* bound on the SearchWorker threads started and not yet handled
MaxSearchWorkers == 2

Remove(s, i) == [j \in 1..(Len(s) - 1) |-> IF j < i THEN s[j] ELSE s[j + 1]]

SearchSignals == {"search_finished", "search_error"}
\* search workers started whose finished / error signal is not handled yet
InFlight ==
  Len(threads.app.searchers)
    + Cardinality({i \in 1..Len(threads.app.queue) :
                     threads.app.queue[i][1] \in SearchSignals})

\* EmbeddingWorker(clip_service, cache_manager, images) before run
NewEmbeddingWorker(images) ==
  [pc |-> "load", images |-> images, i |-> 0, emitted |-> <<>>,
   results |-> <<>>]

\* _start_embedding (folders were added): returns while self.embedding is
\* set or when every image has an embedding, else starts a worker
ImageSearchApp_start_embedding_NoFlag(walk) ==
  LET ns == model_cache_dir
      app == threads.app
      images == SelectSeq(walk, LAMBDA p : has_embedding(ns, p) = "false")
  IN /\ IF images = <<>>
        THEN /\ last' = Call("_start_embedding", ns, "", NoVec, "nothing", "")
             /\ UNCHANGED threads
        ELSE /\ threads' = [threads EXCEPT
                  !.app.embedding = TRUE,
                  !.app.gen_embeddings_btn = FALSE,
                  !.app.workers = Append(@, NewEmbeddingWorker(images))]
             /\ last' = Call("_start_embedding", ns, "", NoVec, "started", "")
     /\ UNCHANGED <<model_name, model_cache_dir, manifest, files, legacy,
                    clip, crashes>>
ImageSearchApp_start_embedding(walk) ==
  LET ns == model_cache_dir
      app == threads.app
      images == SelectSeq(walk, LAMBDA p : has_embedding(ns, p) = "false")
  IN /\ IF app.embedding
        THEN /\ last' = Call("_start_embedding", ns, "", NoVec, "busy", "")
             /\ UNCHANGED threads
        ELSE IF images = <<>>
        THEN /\ last' = Call("_start_embedding", ns, "", NoVec, "nothing", "")
             /\ UNCHANGED threads
        ELSE /\ threads' = [threads EXCEPT
                  !.app.embedding = TRUE,
                  !.app.gen_embeddings_btn = FALSE,
                  !.app.workers = Append(@, NewEmbeddingWorker(images))]
             /\ last' = Call("_start_embedding", ns, "", NoVec, "started", "")
     /\ UNCHANGED <<model_name, model_cache_dir, manifest, files, legacy,
                    clip, crashes>>

\* EmbeddingWorker.run, clip_service.load(): a failure (ok = FALSE, only
\* when the model has to be loaded) leaves the outer try, emits error
EmbeddingWorker_run_load(w, ok) ==
  LET wk == threads.app.workers[w] IN
  /\ wk.pc = "load"
  /\ ~ok => clip.model = "None"
  /\ IF ok
     THEN /\ clip' = IF clip.model = "None"
                     THEN [clip EXCEPT !.model = clip.model_name] ELSE clip
          /\ threads' = [threads EXCEPT !.app.workers[w].pc = "loop"]
     ELSE /\ threads' = [threads EXCEPT
               !.app.workers[w].pc = "exited",
               !.app.workers[w].emitted = Append(@, <<"error">>),
               !.app.queue = Append(@, <<"error">>)]
          /\ UNCHANGED clip
  /\ UNCHANGED <<model_name, model_cache_dir, manifest, files, legacy,
                 crashes, last>>

\* EmbeddingWorker.run, one turn of the loop: get_image_embedding and
\* save_embedding inside the inner try (ok = FALSE: the image cannot be
\* embedded; an unparseable manifest makes save_embedding raise), then
\* progress.emit(i + 1, total)
EmbeddingWorker_run_item_AbortOnFailure(w, ok) ==
  LET wk == threads.app.workers[w]
      ns == model_cache_dir
      img_path == wk.images[wk.i + 1]
      total == Len(wk.images)
      m == _load_manifest(ns)
      filename == _get_embedding_filename(img_path)
      stored == ok /\ ~m.err
  IN /\ wk.pc = "loop"
     /\ wk.i < total
     /\ IF stored
        THEN /\ files' = [files EXCEPT ![ns][filename] =
                            get_image_embedding(img_path)]
             /\ manifest' = [manifest EXCEPT
                  ![ns] = ManifestOf(DictSet(m.d, img_path, filename))]
             /\ threads' = [threads EXCEPT
                  !.app.workers[w].i = @ + 1,
                  !.app.workers[w].results = Append(@, <<img_path, stored>>),
                  !.app.workers[w].emitted =
                     Append(@, <<"progress", wk.i + 1, total>>),
                  !.app.queue = Append(@, <<"progress", wk.i + 1, total>>)]
        ELSE /\ UNCHANGED <<files, manifest>>
             /\ threads' = [threads EXCEPT
                  !.app.workers[w].pc = "exited",
                  !.app.workers[w].results = Append(@, <<img_path, stored>>),
                  !.app.workers[w].emitted = Append(@, <<"error">>),
                  !.app.queue = Append(@, <<"error">>)]
     /\ UNCHANGED <<model_name, model_cache_dir, legacy, clip, crashes, last>>
EmbeddingWorker_run_item(w, ok) ==
  LET wk == threads.app.workers[w]
      ns == model_cache_dir
      img_path == wk.images[wk.i + 1]
      total == Len(wk.images)
      m == _load_manifest(ns)
      filename == _get_embedding_filename(img_path)
      stored == ok /\ ~m.err
  IN /\ wk.pc = "loop"
     /\ wk.i < total
     /\ IF stored
        THEN /\ files' = [files EXCEPT ![ns][filename] =
                            get_image_embedding(img_path)]
             /\ manifest' = [manifest EXCEPT
                  ![ns] = ManifestOf(DictSet(m.d, img_path, filename))]
        ELSE UNCHANGED <<files, manifest>>
     /\ threads' = [threads EXCEPT
          !.app.workers[w].i = @ + 1,
          !.app.workers[w].results = Append(@, <<img_path, stored>>),
          !.app.workers[w].emitted = Append(@, <<"progress", wk.i + 1, total>>),
          !.app.queue = Append(@, <<"progress", wk.i + 1, total>>)]
     /\ UNCHANGED <<model_name, model_cache_dir, legacy, clip, crashes, last>>

\* EmbeddingWorker.run after the loop: finished.emit(total)
EmbeddingWorker_run_finish(w) ==
  LET wk == threads.app.workers[w] IN
  /\ wk.pc = "loop"
  /\ wk.i = Len(wk.images)
  /\ threads' = [threads EXCEPT
       !.app.workers[w].pc = "exited",
       !.app.workers[w].emitted = Append(@, <<"finished", wk.i>>),
       !.app.queue = Append(@, <<"finished", wk.i>>)]
  /\ UNCHANGED <<model_name, model_cache_dir, manifest, files, legacy, clip,
                 crashes, last>>

\* the slot of the signal at the head of the queue runs
_on_embedding_progress ==
  LET app == threads.app IN
  /\ app.queue # <<>> /\ Head(app.queue)[1] = "progress"
  /\ threads' = [threads EXCEPT !.app.queue = Tail(@)]
  /\ last' = Call("_on_embedding_progress", model_cache_dir, "", NoVec, "ok", "")
  /\ UNCHANGED <<model_name, model_cache_dir, manifest, files, legacy, clip,
                 crashes>>

\* the worker whose last signal is handled (its thread has ended)
Reported ==
  CHOOSE w \in 1..Len(threads.app.workers) :
    threads.app.workers[w].pc = "exited"

_on_embedding_done ==
  LET app == threads.app IN
  /\ app.queue # <<>> /\ Head(app.queue)[1] = "finished"
  /\ threads' = [threads EXCEPT
       !.app.queue = Tail(@),
       !.app.embedding = FALSE,
       !.app.gen_embeddings_btn = TRUE,
       !.app.workers = Remove(@, Reported)]
  /\ last' = Call("_on_embedding_done", model_cache_dir, "", NoVec, "ok", "")
  /\ UNCHANGED <<model_name, model_cache_dir, manifest, files, legacy, clip,
                 crashes>>

_on_embedding_error ==
  LET app == threads.app IN
  /\ app.queue # <<>> /\ Head(app.queue)[1] = "error"
  /\ threads' = [threads EXCEPT
       !.app.queue = Tail(@),
       !.app.embedding = FALSE,
       !.app.gen_embeddings_btn = TRUE,
       !.app.workers = Remove(@, Reported)]
  /\ last' = Call("_on_embedding_error", model_cache_dir, "", NoVec, "ok", "")
  /\ UNCHANGED <<model_name, model_cache_dir, manifest, files, legacy, clip,
                 crashes>>

\* _clear_cache: the user answers the question; Yes runs clear_all
ImageSearchApp_clear_cache(reply) ==
  LET ns == model_cache_dir IN
  /\ IF reply = "Yes"
     THEN /\ files' = [files EXCEPT ![ns] = [f \in FileNames |-> NoFile]]
          /\ manifest' = [manifest EXCEPT ![ns] = ManifestOf(<<>>)]
     ELSE UNCHANGED <<files, manifest>>
  /\ last' = Call("_clear_cache", ns, "", NoVec, "ok", reply)
  /\ UNCHANGED <<model_name, model_cache_dir, legacy, threads, clip, crashes>>

\* _start_search with a text query and, possibly, a dropped image
\* (image_path = "" stands for None), run by a click on the Search button
\* (possible while the button is enabled) or by Return in the query field:
\* loads the model if needed (a failure raises out of the slot), disables
\* the button, starts a SearchWorker
SearchTriggers == {"clicked", "returnPressed"}
ImageSearchApp_start_search(query, image_path, trigger, ok) ==
  LET app == threads.app IN
  /\ trigger = "clicked" => app.search_btn
  /\ InFlight < MaxSearchWorkers
  /\ ~ok => clip.model = "None"
  /\ IF ok
     THEN /\ clip' = IF clip.model = "None"
                     THEN [clip EXCEPT !.model = clip.model_name] ELSE clip
          /\ threads' = [threads EXCEPT
               !.app.search_btn = FALSE,
               !.app.searchers = Append(@, <<query, image_path>>)]
          /\ last' = SearchCall("_start_search", model_cache_dir, query,
                                DefaultTopK, image_path, "started", <<>>)
     ELSE /\ last' = SearchCall("_start_search", model_cache_dir, query,
                                DefaultTopK, image_path, "error", <<>>)
          /\ UNCHANGED <<threads, clip>>
  /\ UNCHANGED <<model_name, model_cache_dir, manifest, files, legacy, crashes>>

\* SearchWorker.run of the j-th running search worker: with an existing
\* image the call of search_by_image, which SearchEngine does not define,
\* raises; else search(query); then finished.emit(results) or error.emit
SearchWorker_run(j) ==
  LET app == threads.app
      query == app.searchers[j][1]
      image_path == app.searchers[j][2]
      r == SearchResult(model_cache_dir, query, DefaultTopK)
      raised == (image_path # "" /\ image_path \in ExistingImages) \/ r.err
  IN /\ j \in 1..Len(app.searchers)
     /\ threads' = [threads EXCEPT
          !.app.searchers = Remove(@, j),
          !.app.queue = Append(@, IF raised THEN <<"search_error">>
                                  ELSE <<"search_finished", r.results>>)]
     /\ UNCHANGED <<model_name, model_cache_dir, manifest, files, legacy, clip,
                    crashes, last>>

_on_search_done ==
  LET app == threads.app IN
  /\ app.queue # <<>> /\ Head(app.queue)[1] = "search_finished"
  /\ threads' = [threads EXCEPT !.app.queue = Tail(@), !.app.search_btn = TRUE]
  /\ last' = SearchCall("_on_search_done", model_cache_dir, "", DefaultTopK, "",
                        "ok", Head(app.queue)[2])
  /\ UNCHANGED <<model_name, model_cache_dir, manifest, files, legacy, clip,
                 crashes>>

_on_search_error ==
  LET app == threads.app IN
  /\ app.queue # <<>> /\ Head(app.queue)[1] = "search_error"
  /\ threads' = [threads EXCEPT !.app.queue = Tail(@), !.app.search_btn = TRUE]
  /\ last' = SearchCall("_on_search_error", model_cache_dir, "", DefaultTopK, "",
                        "ok", <<>>)
  /\ UNCHANGED <<model_name, model_cache_dir, manifest, files, legacy, clip,
                 crashes>>

\* the query typed in the search field
AppQueries == {"cat"}

\* the images a user has dropped on the search field
AppImages == {"", "/d1/a.jpg"}

WorkerStep ==
  \/ \E w \in 1..Len(threads.app.workers), ok \in BOOLEAN :
       EmbeddingWorker_run_load(w, ok)
  \/ \E w \in 1..Len(threads.app.workers), ok \in BOOLEAN :
       EmbeddingWorker_run_item(w, ok)
  \/ \E w \in 1..Len(threads.app.workers) : EmbeddingWorker_run_finish(w)

SearcherStep == \E j \in 1..Len(threads.app.searchers) : SearchWorker_run(j)

SlotStep ==
  \/ _on_embedding_progress
  \/ _on_embedding_done
  \/ _on_embedding_error
  \/ _on_search_done
  \/ _on_search_error

AppNext ==
  \/ \E walk \in WalkOrders : ImageSearchApp_start_embedding(walk)
  \/ \E reply \in {"Yes", "No"} : ImageSearchApp_clear_cache(reply)
  \/ \E q \in AppQueries, img \in AppImages, t \in SearchTriggers,
        ok \in BOOLEAN :
       ImageSearchApp_start_search(q, img, t, ok)
  \/ WorkerStep
  \/ SearcherStep
  \/ SlotStep

AppSpec == Init /\ [][AppNext]_vars

\* The embedding pass alone: requests, the worker, the slots of its signals
\* and _clear_cache.  The operating system schedules every thread that can
\* run, and the event loop of the main thread runs the slot of every queued
\* signal.
PassSlotStep ==
  \/ _on_embedding_progress
  \/ _on_embedding_done
  \/ _on_embedding_error

PassNext ==
  \/ \E walk \in WalkOrders : ImageSearchApp_start_embedding(walk)
  \/ \E reply \in {"Yes", "No"} : ImageSearchApp_clear_cache(reply)
  \/ WorkerStep
  \/ PassSlotStep

PassFairSpec ==
  Init /\ [][PassNext]_vars /\ WF_vars(WorkerStep) /\ WF_vars(PassSlotStep)

----------------------------------------------------------------------------
(* Properties of the cache, checked under Spec *)

\* the answers the four read operations give in namespace ns
View(ns) ==
  <<[p \in AllKeys |-> has_embedding(ns, p)],
    [p \in AllKeys |-> load_embedding(ns, p)],
    get_all_embeddings(ns),
    get_all_image_paths(ns)>>

\* the manifest of ns has an entry for p / an entry whose file exists
EntryCount(ns, p) ==
  Cardinality({i \in 1..Len(manifest[ns].items) : manifest[ns].items[i][1] = p})
EntryWithFile(ns, p) ==
  \E i \in 1..Len(manifest[ns].items) :
    /\ manifest[ns].items[i][1] = p
    /\ files[ns][manifest[ns].items[i][2]] # NoFile

Mutations == {"save_embedding", "remove_embedding", "clear_all"}

\* C1: after save_embedding(p, v) completes, load_embedding(p) returns v
\* (whether or not p held another vector before) and the manifest holds
\* exactly one entry for p; completed saves and removes of other keys leave
\* what load_embedding(p) returns unchanged.
C1_AfterSave ==
  (last.op = "save_embedding" /\ last.status = "ok") =>
    /\ load_embedding(last.ns, last.key) = LoadResult("ok", last.vec)
    /\ EntryCount(last.ns, last.key) = 1
C1_OtherKeys ==
  \A ns \in Models, p \in PathKeys :
    ( /\ ns = model_cache_dir
      /\ load_embedding(ns, p).st = "ok"
      /\ last'.op \in {"save_embedding", "remove_embedding"}
      /\ last'.status = "ok"
      /\ last'.key # p )
    => load_embedding(ns, p)' = load_embedding(ns, p)
C1_RoundTripLastWriteWins == [](C1_AfterSave) /\ [][C1_OtherKeys]_vars

\* C1 witness: a completed save over a key that held a different vector,
\* while another key is cached in the same namespace
C1_Witness ==
  /\ last.op = "save_embedding" /\ last.status = "ok"
  /\ crashes = 0
  /\ \E q \in PathKeys : q # last.key /\ has_embedding(last.ns, q) = "true"
  /\ Len(manifest[last.ns].items) = 2
  /\ manifest[last.ns].items[1][1] = last.key

\* C2: has_embedding(p) answers true exactly when the manifest has an entry
\* for p and the file it names exists, and answers false, never an error,
\* otherwise.
C2_HasEmbeddingIffEntryAndFile ==
  last.op = "has_embedding" =>
    last.status = IF EntryWithFile(last.ns, last.key) THEN "true" ELSE "false"

\* C3: a crash inside the manifest rewrite of save_embedding,
\* remove_embedding or clear_all leaves the complete old or the complete new
\* manifest on disk, never an unparseable one, and every entry that was
\* retrievable and is not the target of the operation stays retrievable.
C3_Step ==
  \A ns \in Models :
    (last'.status = "crash" /\ last'.point = "manifest_write" /\ last'.ns = ns)
    => /\ manifest'[ns].st # "corrupt"
       /\ \A q \in PathKeys :
            ( /\ last'.op # "clear_all"
              /\ q # last'.key
              /\ load_embedding(ns, q).st = "ok" )
            => load_embedding(ns, q)' = load_embedding(ns, q)
C3_ManifestRewriteAtomic == [][C3_Step]_vars

\* C4 as claimed: a save_embedding(p, v) interrupted between np.save and
\* _save_manifest changes no answer of has_embedding and load_embedding,
\* for p (cached before or not) and for every other key.
InterruptedPut ==
  /\ last'.op = "save_embedding"
  /\ last'.status = "crash"
  /\ last'.point = "before_manifest"
C4_OriginalStep ==
  \A ns \in Models :
    (InterruptedPut /\ last'.ns = ns)
    => \A q \in PathKeys :
         /\ has_embedding(ns, q)' = has_embedding(ns, q)
         /\ load_embedding(ns, q)' = load_embedding(ns, q)
C4_InterruptedPutInvisible == [][C4_OriginalStep]_vars

\* C4 amended: after such an interrupted save_embedding(p, v) every key
\* other than p answers as before; p answers as before when the manifest
\* had no entry for p (the file is an orphan), and when the manifest had an
\* entry for p, has_embedding(p) is true and load_embedding(p) returns v.
C4_AmendedStep ==
  \A ns \in Models, p \in PathKeys :
    (InterruptedPut /\ last'.ns = ns /\ last'.key = p)
    => /\ \A q \in PathKeys :
            (q # p \/ EntryCount(ns, p) = 0)
            => /\ has_embedding(ns, q)' = has_embedding(ns, q)
               /\ load_embedding(ns, q)' = load_embedding(ns, q)
       /\ EntryCount(ns, p) > 0
          => /\ has_embedding(ns, p)' = "true"
             /\ load_embedding(ns, p)' = LoadResult("ok", last'.vec)
C4_InterruptedPutAmended == [][C4_AmendedStep]_vars

\* C4 witness: the interrupted save hit a key the manifest has an entry for,
\* while another key is cached
C4_Witness ==
  /\ last.op = "save_embedding" /\ last.status = "crash"
  /\ last.point = "before_manifest"
  /\ EntryCount(last.ns, last.key) = 1
  /\ \E q \in PathKeys : q # last.key /\ has_embedding(last.ns, q) = "true"

\* C5: a save_embedding, remove_embedding or clear_all executed while model
\* x is active leaves every answer of has_embedding, load_embedding,
\* get_all_embeddings and get_all_image_paths in any other namespace y
\* unchanged; a key saved under x only is absent under y.
C5_Step ==
  \A y \in Models :
    (y # model_name /\ last'.op \in Mutations) => View(y)' = View(y)
C5_SavedOnlyUnderX ==
  \A y \in Models :
    ( /\ last.op = "save_embedding" /\ last.status = "ok"
      /\ y # last.ns
      /\ manifest[y].st = "absent" )
    => has_embedding(y, last.key) = "false"
C5_NamespaceIsolation == [](C5_SavedOnlyUnderX) /\ [][C5_Step]_vars

\* C5 witness: a save completed in one namespace while the other namespace
\* holds a different vector for the same key
C5_Witness ==
  /\ last.op = "save_embedding" /\ last.status = "ok"
  /\ \E y \in Models :
       /\ y # last.ns
       /\ load_embedding(y, last.key).st = "ok"
       /\ load_embedding(y, last.key).v # last.vec

\* C13: remove_embedding(p) makes has_embedding(p) false and deletes the
\* file the manifest named for p, leaves has_embedding and load_embedding of
\* every other key unchanged, and changes neither the manifest nor any file
\* when the manifest has no entry for p.
C13_Step ==
  \A ns \in Models, p \in PathKeys :
    ( /\ last'.op = "remove_embedding" /\ last'.status = "ok"
      /\ last'.ns = ns /\ last'.key = p )
    => /\ has_embedding(ns, p)' = "false"
       /\ EntryCount(ns, p) > 0
          => files'[ns][DictGet(manifest[ns].items, p)] = NoFile
       /\ \A q \in PathKeys :
            q # p => /\ has_embedding(ns, q)' = has_embedding(ns, q)
                     /\ load_embedding(ns, q)' = load_embedding(ns, q)
       /\ EntryCount(ns, p) = 0 => UNCHANGED <<manifest, files>>
C13_RemoveOnlyTarget == [][C13_Step]_vars

\* C13 witness: a completed remove_embedding(p) after which p's file is gone
\* and the other key is still cached
C13_Witness ==
  /\ last.op = "remove_embedding" /\ last.status = "ok"
  /\ manifest[last.ns].st = "ok" /\ Len(manifest[last.ns].items) = 1
  /\ files[last.ns][_get_embedding_filename(last.key)] = NoFile
  /\ \E q \in PathKeys : q # last.key /\ has_embedding(last.ns, q) = "true"

\* C14: after clear_all completes, from any state (orphan files, stale or
\* unreadable manifest included), get_all_image_paths and get_all_embeddings
\* are empty and the embeddings directory of the active namespace holds no
\* file.
C14_ClearAllComplete ==
  (last.op = "clear_all" /\ last.status = "ok") =>
    /\ get_all_image_paths(last.ns) = [err |-> FALSE, keys |-> <<>>]
    /\ get_all_embeddings(last.ns) = [err |-> FALSE, d |-> <<>>]
    /\ \A f \in FileNames : files[last.ns][f] = NoFile

\* C14 witness: clear_all completed after an operation of the namespace was
\* cut short by a crash
C14_Witness ==
  /\ last.op = "clear_all" /\ last.status = "ok"
  /\ crashes = 1
  /\ last.ns = DefaultModel

\* C15: get_all_embeddings returns, without error, exactly the pairs
\* (p, stored vector of p) of the manifest keys p whose file exists: its key
\* set is { p in get_all_image_paths() : has_embedding(p) }; an entry whose
\* file is missing is skipped while get_all_image_paths still lists it.
C15_AllEmbeddingsExact ==
  LET ns == model_cache_dir
      all == get_all_embeddings(ns)
      paths == get_all_image_paths(ns)
  IN /\ ~all.err
     /\ ~paths.err
     /\ {all.d[i][1] : i \in 1..Len(all.d)}
          = {k \in {paths.keys[i] : i \in 1..Len(paths.keys)} :
               has_embedding(ns, k) = "true"}
     /\ \A i \in 1..Len(all.d) :
          load_embedding(ns, all.d[i][1]) = LoadResult("ok", all.d[i][2])
     /\ \A k \in PathKeys :
          EntryCount(ns, k) > 0 => \E i \in 1..Len(paths.keys) : paths.keys[i] = k

\* C16: set_model with the current name changes no state; whatever happens
\* while another model is active, a key retrievable in namespace A stays
\* retrievable there with the same vector, and after set_model(A) the
\* operations read namespace A.
C16_Step ==
  /\ (last'.op = "set_model" /\ last'.ns = model_name)
     => UNCHANGED <<model_name, model_cache_dir, manifest, files>>
  /\ \A A \in Models, p \in PathKeys :
       ( /\ A # model_name \/ last'.op = "set_model"
         /\ load_embedding(A, p).st = "ok" )
       => load_embedding(A, p)' = load_embedding(A, p)
C16_AfterSetModel ==
  last.op = "set_model" => (model_name = last.ns /\ model_cache_dir = last.ns)
C16_ModelSwitchLosesNothing == [](C16_AfterSetModel) /\ [][C16_Step]_vars

\* C16 witness: back in a namespace that holds a key, while the other
\* namespace was written in between
C16_Witness ==
  /\ last.op = "set_model"
  /\ crashes = 0
  /\ \E p \in PathKeys : load_embedding(last.ns, p).st = "ok"
  /\ \E B \in Models, p \in PathKeys :
       B # last.ns /\ load_embedding(B, p).st = "ok"

\* C17: load_embedding(p) returns None, without error, when the manifest
\* has no entry for p or the entry's file does not exist, and ends in an
\* error, never in None, when the entry's file exists but cannot be read.
C17_MissingVersusCorrupt ==
  LET ns == model_cache_dir IN
  \A p \in PathKeys :
    /\ ~EntryWithFile(ns, p) => load_embedding(ns, p).st = "none"
    /\ ( /\ EntryCount(ns, p) > 0
         /\ files[ns][_get_embedding_filename(p)] = CorruptFile )
       => load_embedding(ns, p).st = "error"

----------------------------------------------------------------------------
(* Properties of the search, checked under SearchSpec *)

\* the candidates the last search ranked, in the order get_all_embeddings
\* returns them
Candidates == get_all_embeddings(last.ns).d

ZeroNorm(v) == Dot(v, v) = 0

IndexOfKey(seq, k) == CHOOSE i \in 1..Len(seq) : seq[i][1] = k
HasKey(seq, k) == \E i \in 1..Len(seq) : seq[i][1] = k

Min(a, b) == IF a < b THEN a ELSE b

SearchDone == last.op = "search" /\ last.status = "ok"

\* the score of candidate i for the last query
ScoreOf(i) == _cosine_similarity(get_text_embedding(last.query), Candidates[i][2])

\* C6: for a positive top_k and candidates of non-zero norm, search returns
\* min(top_k, number of candidates) entries, each a candidate with its
\* score and none twice, in non-increasing score order, and no candidate
\* left out scores higher than a returned one.
C6_TopKSorted ==
  ( /\ SearchDone
    /\ last.top_k > 0
    /\ \A i \in 1..Len(Candidates) : ~ZeroNorm(Candidates[i][2]) )
  => /\ Len(last.out) = Min(last.top_k, Len(Candidates))
     /\ \A i \in 1..Len(last.out) :
          /\ HasKey(Candidates, last.out[i][1])
          /\ last.out[i][2] = ScoreOf(IndexOfKey(Candidates, last.out[i][1]))
     /\ \A i, j \in 1..Len(last.out) :
          i < j => /\ last.out[i][1] # last.out[j][1]
                   /\ ~FloatLt(last.out[i][2], last.out[j][2])
     /\ \A c \in 1..Len(Candidates), i \in 1..Len(last.out) :
          ~HasKey(last.out, Candidates[c][1])
          => ~FloatLt(last.out[i][2], ScoreOf(c))

\* C6 witness: three candidates of three different scores, stored in
\* ascending score order, and a top_k that cuts the list
C6_Witness ==
  /\ SearchDone
  /\ last.top_k = 2
  /\ Len(Candidates) = 3
  /\ \A i \in 1..3 : ~ZeroNorm(Candidates[i][2])
  /\ FloatLt(ScoreOf(1), ScoreOf(2)) /\ FloatLt(ScoreOf(2), ScoreOf(3))

\* C7: a cached vector of zero norm is never in the list search returns,
\* the search does not fail because of it, and the returned candidates of
\* non-zero norm are in the order the ranking of the non-zero candidates
\* alone gives them.
NonZeroCandidates == SelectSeq(Candidates, LAMBDA c : ~ZeroNorm(c[2]))
RankNonZero ==
  Rank(get_text_embedding(last.query), NonZeroCandidates, Len(NonZeroCandidates))
C7_ZeroNormSkipped ==
  last.op = "search" =>
    /\ last.status = "ok"
    /\ \A i \in 1..Len(last.out) :
         ~ZeroNorm(Candidates[IndexOfKey(Candidates, last.out[i][1])][2])
    /\ \A i, j \in 1..Len(last.out) :
         ( /\ i < j
           /\ HasKey(NonZeroCandidates, last.out[i][1])
           /\ HasKey(NonZeroCandidates, last.out[j][1]) )
         => IndexOfKey(RankNonZero, last.out[i][1])
              < IndexOfKey(RankNonZero, last.out[j][1])

\* C8: for every top_k <= 0, search returns the empty list and no error.
C8_NonPositiveTopKEmpty ==
  (last.op = "search" /\ last.top_k <= 0) =>
    (last.status = "ok" /\ last.out = <<>>)

\* C9: two candidates of exactly equal score appear in the result in the
\* order get_all_embeddings returned them.
FloatEq(x, y) == ~x.nan /\ ~y.nan /\ x = y
C10_ImageSearchSameRanking ==
  (last.op = "SearchWorker.run" /\ last.image \in ExistingImages) =>
    /\ last.status = "finished"
    /\ last.out = Rank(get_image_embedding(last.image), Candidates, DefaultTopK)

----------------------------------------------------------------------------
(* Properties of the migration, checked under MigrationSpec *)

\* the number of directories (legacy, namespaces) that hold a file named f,
\* and the contents found under that name
Places(f) ==
  (IF legacy.files[f] # NoFile THEN 1 ELSE 0)
    + Cardinality({ns \in Models : files[ns][f] # NoFile})
Stored(f) ==
  ({legacy.files[f]} \cup {files[ns][f] : ns \in Models}) \ {NoFile}

\* C11: constructing CacheManager a second time on the same cache root with
\* the same model name changes nothing on disk, whatever the legacy layout
\* and the namespace held; a construction copies no vector file to a second
\* place and makes none disappear.
C11_Step ==
  last'.op = "__init__" =>
    /\ (last.op = "__init__" /\ last.ns = last'.ns)
       => UNCHANGED <<legacy, manifest, files>>
    /\ \A f \in FileNames : Places(f)' = Places(f) /\ Stored(f)' = Stored(f)
C11_MigrationIdempotent == [][C11_Step]_vars

\* C11 witness: constructed on a namespace that had its own manifest and a
\* file of a legacy name: one legacy file was moved, one was skipped and the
\* legacy manifest stayed
C11_Witness ==
  /\ last.op = "__init__"
  /\ legacy.manifest.st = "ok"
  /\ \E f, g \in FileNames :
       /\ legacy.files[f] # NoFile /\ files[last.ns][f] # NoFile
       /\ legacy.files[g] = NoFile /\ files[last.ns][g] # NoFile
       /\ \A ns \in Models : ns # last.ns => files[ns][g] = NoFile

\* a key with a legacy manifest entry whose legacy vector file exists
ValidLegacy(k) ==
  /\ DictHas(legacy.manifest.items, k)
  /\ legacy.files[DictGet(legacy.manifest.items, k)] # NoFile

\* C12 as claimed: after construction with model name m every key valid in
\* the legacy layout has has_embedding true in namespace m, load_embedding
\* returns its legacy vector and its file is gone from the legacy location,
\* also when namespace m held a manifest or vector files before.
C12_OriginalStep ==
  \A m \in Models, k \in PathKeys :
    (last'.op = "__init__" /\ last'.ns = m /\ ValidLegacy(k))
    => /\ has_embedding(m, k)' = "true"
       /\ load_embedding(m, k)' =
            LoadResult("ok", legacy.files[_get_embedding_filename(k)])
       /\ legacy'.files[_get_embedding_filename(k)] = NoFile
C12_MigrationPreservesLegacy == [][C12_OriginalStep]_vars

\* C12 amended: the same for every valid legacy key whose file name is free
\* in namespace m, when namespace m has no manifest before the construction
\* (other vector files may be there).
C12_AmendedStep ==
  \A m \in Models, k \in PathKeys :
    ( /\ last'.op = "__init__" /\ last'.ns = m /\ ValidLegacy(k)
      /\ manifest[m].st = "absent"
      /\ files[m][_get_embedding_filename(k)] = NoFile )
    => /\ has_embedding(m, k)' = "true"
       /\ load_embedding(m, k)' =
            LoadResult("ok", legacy.files[_get_embedding_filename(k)])
       /\ legacy'.files[_get_embedding_filename(k)] = NoFile
C12_MigrationPreservesLegacyAmended == [][C12_AmendedStep]_vars

\* C12 witness: the legacy manifest was moved into a namespace that already
\* held a vector file; one legacy key is retrievable there and its legacy
\* file is gone, the file of the taken name stayed in the legacy directory
C12_Witness ==
  /\ last.op = "__init__"
  /\ legacy.manifest.st = "absent"
  /\ \E k, q \in PathKeys :
       /\ has_embedding(last.ns, k) = "true"
       /\ legacy.files[_get_embedding_filename(k)] = NoFile
       /\ legacy.files[_get_embedding_filename(q)] # NoFile
       /\ files[last.ns][_get_embedding_filename(q)] # NoFile

----------------------------------------------------------------------------
(* Properties of the statistics, checked under StatsSpec *)

\* the keys currently stored in the active namespace
StoredKeys == {p \in SearchKeys : has_embedding(model_cache_dir, p) = "true"}

RECURSIVE StoredBytes(_)
StoredBytes(K) ==
  IF K = {} THEN 0
  ELSE LET p == CHOOSE p \in K : TRUE
       IN getsize(load_embedding(model_cache_dir, p).v) + StoredBytes(K \ {p})

\* C18: after any sequence of completed save_embedding, remove_embedding
\* and clear_all calls on an initially empty namespace, get_stats reports
\* image_count = the number of keys stored, cache_size_mb = the bytes of
\* exactly those keys' vector files over 1024 * 1024, and folders = the
\* distinct parent directories of those keys in ascending order.
C18_StatsAccurate ==
  LET r == get_stats(model_cache_dir) IN
  /\ ~r.err
  /\ r.image_count = Cardinality(StoredKeys)
  /\ r.cache_size_mb.num * BytesPerMb = StoredBytes(StoredKeys) * r.cache_size_mb.den
  /\ {r.folders[i] : i \in 1..Len(r.folders)} = {dirname(p) : p \in StoredKeys}
  /\ \A i, j \in 1..Len(r.folders) : i < j => StrLt(r.folders[i], r.folders[j])
  /\ last.op = "get_stats" => last.out = r

\* C18 witness: get_stats answered with three keys stored, saved in an order
\* that is not the order of their directories, with files of two sizes
C18_Witness ==
  /\ last.op = "get_stats"
  /\ last.out.image_count = 3
  /\ last.out.folders = <<"/d1", "/d2">>
  /\ manifest[model_cache_dir].items[1][1] = "/d2/c.jpg"
  /\ \E p, q \in StoredKeys :
       Len(load_embedding(model_cache_dir, p).v)
         # Len(load_embedding(model_cache_dir, q).v)

----------------------------------------------------------------------------
(* Properties of the life of a cache root, checked under LifecycleSpec *)

\* C19: in every state reached by constructions (with or without a legacy
\* layout, with any model names), set_model, save_embedding,
\* remove_embedding and clear_all, none interrupted, every entry of the
\* manifest of every namespace names a vector file that exists in the
\* embeddings directory of that namespace.
C19_ManifestFilesConsistent ==
  \A ns \in Models : \A i \in 1..Len(manifest[ns].items) :
    FileExists(ns, manifest[ns].items[i][2])

----------------------------------------------------------------------------
(* Properties of the two worker threads, checked under WorkersSpec *)

\* C20: a search whose get_all_embeddings interleaves at any step with the
\* embedding worker's save_embedding calls never ends in an error, and what
\* it ranks is the cache contents as of some point between its start and
\* its end.
C20_ProducerConsumerSafe ==
  last.op = "SearchWorker.run" =>
    /\ last.status = "finished"
    /\ \E c \in threads.snaps :
         last.out = Rank(get_text_embedding(last.query), c, DefaultTopK)

----------------------------------------------------------------------------
(* Migration and the data already in the namespace, checked under
   MigrationSpec *)

\* C26: a construction on a cache root without legacy manifest changes no
\* file; a construction leaves the manifest the namespace already has and
\* every vector file the namespace already has as they are, so every key
\* retrievable in the namespace before is retrievable with the same vector
\* afterwards.
C26_Step ==
  \A m \in Models :
    (last'.op = "__init__" /\ last'.ns = m) =>
      /\ legacy.manifest.st = "absent" => UNCHANGED <<legacy, manifest, files>>
      /\ manifest[m].st # "absent" => manifest'[m] = manifest[m]
      /\ \A f \in FileNames :
           files[m][f] # NoFile => files'[m][f] = files[m][f]
      /\ \A k \in PathKeys :
           has_embedding(m, k) = "true"
           => /\ has_embedding(m, k)' = "true"
              /\ load_embedding(m, k)' = load_embedding(m, k)
C26_MigrationNeverOverwrites == [][C26_Step]_vars

\* C26 witness: constructed on a namespace whose manifest and vector file
\* met a legacy manifest and a legacy file of the same name with another
\* vector: the key is retrievable in the namespace, both legacy files stayed
C26_Witness ==
  /\ last.op = "__init__"
  /\ legacy.manifest.st = "ok"
  /\ \E k \in PathKeys :
       /\ has_embedding(last.ns, k) = "true"
       /\ DictHas(legacy.manifest.items, k)
       /\ legacy.files[_get_embedding_filename(k)] # NoFile
       /\ legacy.files[_get_embedding_filename(k)]
            # files[last.ns][_get_embedding_filename(k)]

----------------------------------------------------------------------------
(* The model names of the cache and of the embedding service, checked under
   ModelSpec *)

\* the model a namespace name stands for
ClipModelOf(ns) ==
  CASE ns = "clip-vit-base-patch32" -> "openai/clip-vit-base-patch32"
    [] ns = "clip-vit-large-patch14" -> "openai/clip-vit-large-patch14"

\* C24: in every state, from construction on and across any set_model
\* calls, CacheManager.model_name names the model CLIPService.model_name
\* embeds with, and every vector stored in a namespace is the embedding the
\* model of that namespace gives its image.
C24_NamespaceTracksModel ==
  /\ ClipModelOf(model_name) = clip.model_name
  /\ \A ns \in Models, p \in PathKeys :
       load_embedding(ns, p).st = "ok"
       => load_embedding(ns, p).v = ModelEmbedding(ClipModelOf(ns), p)

----------------------------------------------------------------------------
(* Properties of the application and its worker threads, checked under
   AppSpec and PassFairSpec *)

\* the embedding workers whose run has not ended
RunningWorkers ==
  {w \in 1..Len(threads.app.workers) : threads.app.workers[w].pc # "exited"}

\* C21: while an embedding pass is running the application executes no
\* other mutation of the cache: no step runs clear_all while an
\* EmbeddingWorker is between its start and its end.
C21_Step ==
  (last' # last /\ last'.op = "_clear_cache" /\ last'.point = "Yes")
  => RunningWorkers = {}
C21_SingleWriter == [][C21_Step]_vars

\* C22: at most one search is in flight: from the start of a search worker
\* until its finished or error signal is handled no second search worker is
\* started.
C22_OneSearchInFlight == InFlight <= 1

\* the slot of the last signal of a pass is about to run
ReportDue ==
  /\ threads.app.queue # <<>>
  /\ Head(threads.app.queue)[1] \in {"finished", "error"}
  /\ RunningWorkers = {}

C23_Step ==
  /\ threads.app.embedding
     => Len(threads'.app.workers) <= Len(threads.app.workers)
  /\ (threads.app.embedding /\ ~threads'.app.embedding) => ReportDue
  /\ (~threads.app.gen_embeddings_btn /\ threads'.app.gen_embeddings_btn)
     => ReportDue

\* C23: at most one embedding pass runs at any time; a request made while
\* self.embedding is set starts no worker; the flag is cleared and the
\* button enabled only by the slot of the finished or error signal of the
\* worker, whose run has ended; every started pass gets there.
C23_OnePassAtATime ==
  /\ [](Cardinality(RunningWorkers) <= 1)
  /\ [][C23_Step]_vars
  /\ (threads.app.embedding ~> ~threads.app.embedding)

\* C23 witness: a request arrived while the flag was set, after the worker
\* had emitted finished and before the slot ran; no worker was started
C23_Witness ==
  /\ last.op = "_start_embedding" /\ last.status = "busy"
  /\ Len(threads.app.workers) = 1
  /\ threads.app.workers[1].pc = "exited"
  /\ threads.app.workers[1].emitted[Len(threads.app.workers[1].emitted)][1]
       = "finished"

\* the signals of a pass over total images that got past load()
ExpectedSignals(total) ==
  [k \in 1..total |-> <<"progress", k, total>>] \o <<<<"finished", total>>>>
IsPrefix(s, t) == Len(s) <= Len(t) /\ \A k \in 1..Len(s) : s[k] = t[k]
\* load() failed: the pass ended with error before the first image
LoadFailed(wk) == wk.results = <<>> /\ wk.emitted = <<<<"error">>>>

\* what the signals and the images tried of worker wk have to be
SignalsInOrder(wk) ==
  LET total == Len(wk.images) IN
  /\ IsPrefix(wk.emitted, ExpectedSignals(total))
  /\ Len(wk.results) = Len(wk.emitted) \/ Len(wk.emitted) = total + 1
  /\ \A k \in 1..Len(wk.results) : wk.results[k][1] = wk.images[k]
  /\ wk.pc = "exited" => wk.emitted = ExpectedSignals(total)

\* every image that did not fail is retrievable right after its turn
C25_Step ==
  \A w \in 1..Len(threads.app.workers) :
    LET wk == threads.app.workers[w]
        after == threads'.app.workers[w]
    IN ( /\ Len(threads'.app.workers) = Len(threads.app.workers)
         /\ Len(after.results) = Len(wk.results) + 1
         /\ after.results[Len(after.results)][2] )
       => \A p \in PathKeys :
            p = after.results[Len(after.results)][1]
            => load_embedding(model_cache_dir, p)'
                 = LoadResult("ok", get_image_embedding(p))

\* a worker has reported finished after all its progress signals
FinishedEmitted ==
  \E w \in 1..Len(threads.app.workers) :
    /\ threads.app.workers[w].pc = "exited"
    /\ threads.app.workers[w].emitted
         = ExpectedSignals(Len(threads.app.workers[w].images))

\* C25 as claimed: whichever images fail, every pass tries every image in
\* list order, stores each one that does not fail, emits progress(i, total)
\* once for each i = 1..total in increasing order and then finished once,
\* never error.
C25_FailureIsolation ==
  /\ [](\A w \in 1..Len(threads.app.workers) :
          SignalsInOrder(threads.app.workers[w]))
  /\ [][C25_Step]_vars
  /\ (threads.app.workers # <<>> ~> FinishedEmitted)

\* C25 amended: the same for every pass whose clip_service.load() at the
\* start of run succeeded.
C25_FailureIsolationAmended ==
  /\ [](\A w \in 1..Len(threads.app.workers) :
          ~LoadFailed(threads.app.workers[w])
          => SignalsInOrder(threads.app.workers[w]))
  /\ [][C25_Step]_vars
  /\ ((\E w \in 1..Len(threads.app.workers) :
         threads.app.workers[w].pc = "loop") ~> FinishedEmitted)

\* C25 witness: a pass over two images ended with finished; the first image
\* failed, the second was stored
C25_Witness ==
  \E w \in 1..Len(threads.app.workers) :
    LET wk == threads.app.workers[w] IN
    /\ wk.pc = "exited"
    /\ Len(wk.images) = 2
    /\ wk.results = <<<<wk.images[1], FALSE>>, <<wk.images[2], TRUE>>>>
    /\ wk.emitted = ExpectedSignals(2)
    /\ has_embedding(model_cache_dir, wk.images[2]) = "true"

====
